---------------------------- MODULE Spec2Model ----------------------------
(***************************************************************************)
(* G-code filament tracker: the metadata scanner (src/src/gcode_parser.py), *)
(* the duration normaliser, and the command line's file processing, CSV    *)
(* writer and watch handler (src/src/cli.py, src/src/notion_client.py).     *)
(*                                                                         *)
(* Text is modelled as TLA+ strings; a character is a string of length 1.  *)
(* An absent value (Python None) is the empty tuple, a present value v is  *)
(* the one-element tuple <<v>>.                                            *)
(***************************************************************************)
EXTENDS Integers, Sequences, FiniteSets, TLC

VARIABLES
    \* parse_gcode: one call
    exists,         \* whether file_path can be opened
    file,           \* the lines of the file at file_path
    idx,            \* the index enumerate() gives the next line
    result,         \* the ParseResult being filled
    header_lines,   \* the stripped lines kept for slicer detection
    pc,             \* "open", "scan", "done" (returned), "raised"
    \* _parse_human_time_to_seconds: one call
    text,           \* the argument
    seconds,        \* the value returned
    tpc,            \* "call" before the call, "done" after it
    \* the command line: main, process_file and the watch handler
    args,           \* the parsed arguments and the NOTION_TOKEN variable
    disk,           \* the .gcode file of the watched folder
    outputs,        \* what process_file wrote, sent and printed
    last,           \* the outcome of the latest process_file call
    cpc,            \* where main or the handler stands
    handler,        \* the locals of on_created
    watch           \* the observer thread, its log and its event count

scanVars == <<exists, file, idx, result, header_lines, pc>>

timeVars == <<text, seconds, tpc>>

cliVars == <<args, disk, outputs, last, cpc, handler, watch>>

vars == <<scanVars, timeVars, cliVars>>

---------------------------------------------------------------------------
(* Python values and string methods                                        *)

None == <<>>
Some(v) == <<v>>

Char(s, i) == SubSeq(s, i, i)

Digits == {"0", "1", "2", "3", "4", "5", "6", "7", "8", "9"}

\* what str.strip() removes and what \s matches
Whitespace == {" ", "\t", "\n", "\r", "\f"}

Letters == "abcdefghijklmnopqrstuvwxyz"

Capitals == "ABCDEFGHIJKLMNOPQRSTUVWXYZ"

\* \w of the re module, for \b
WordChars == Digits \cup {"_"} \cup {Char(Letters, i) : i \in 1..26}
                 \cup {Char(Capitals, i) : i \in 1..26}

CapitalSet == {Char(Capitals, i) : i \in 1..26}

LowerChar(c) ==
    IF c \in CapitalSet
    THEN Char(Letters, CHOOSE i \in 1..26 : Char(Capitals, i) = c)
    ELSE c

RECURSIVE lower(_)
lower(s) == IF s = "" THEN "" ELSE LowerChar(Head(s)) \o lower(Tail(s))

RECURSIVE lstrip(_)
lstrip(s) == IF s # "" /\ Head(s) \in Whitespace THEN lstrip(Tail(s)) ELSE s

RECURSIVE rstrip(_)
rstrip(s) ==
    IF s # "" /\ Char(s, Len(s)) \in Whitespace
    THEN rstrip(SubSeq(s, 1, Len(s) - 1))
    ELSE s

strip(s) == rstrip(lstrip(s))

\* s.replace(old, "") for a one-character old
RECURSIVE remove(_, _)
remove(s, old) ==
    IF s = "" THEN ""
    ELSE (IF Head(s) = old THEN "" ELSE Head(s)) \o remove(Tail(s), old)

DigitVal(c) == CHOOSE d \in 0..9 : Char("0123456789", d + 1) = c

\* int(s) for a string of decimal digits
RECURSIVE int(_)
int(s) ==
    IF s = "" THEN 0
    ELSE 10 * int(SubSeq(s, 1, Len(s) - 1)) + DigitVal(Char(s, Len(s)))

AllDigits(s) == \A i \in 1..Len(s) : Char(s, i) \in Digits

\* the end of the longest run of digits that starts at i (i - 1 when none)
RECURSIVE RunEnd(_, _)
RunEnd(s, i) ==
    IF i <= Len(s) /\ Char(s, i) \in Digits THEN RunEnd(s, i + 1) ELSE i - 1

\* the start of the longest run of digits that ends at i (i + 1 when none)
RECURSIVE RunStart(_, _)
RunStart(s, i) ==
    IF i >= 1 /\ Char(s, i) \in Digits THEN RunStart(s, i - 1) ELSE i + 1

\* the first position at or after i that holds no whitespace
RECURSIVE SkipSpace(_, _)
SkipSpace(s, i) ==
    IF i <= Len(s) /\ Char(s, i) \in Whitespace THEN SkipSpace(s, i + 1) ELSE i

\* whether pat stands in s at position i
At(s, i, pat) ==
    /\ i >= 1
    /\ i + Len(pat) - 1 <= Len(s)
    /\ SubSeq(s, i, i + Len(pat) - 1) = pat

\* whether pat (in lower case) stands in s at position i, whatever the case
AtFold(s, i, pat) ==
    /\ i >= 1
    /\ i + Len(pat) - 1 <= Len(s)
    /\ LowerChar(Char(s, i)) = Char(pat, 1)
    /\ lower(SubSeq(s, i, i + Len(pat) - 1)) = pat

Min(S) == CHOOSE x \in S : \A y \in S : x <= y

---------------------------------------------------------------------------
(* _parse_human_time_to_seconds                                            *)

\* re.match(r"^\d{1,2}:\d{2}(:\d{2})?$", s): the length of the first
\* component when s is a clock form, 0 when it is not
ClockHead(s) ==
    LET fits(k) ==
            /\ Len(s) \in {k + 3, k + 6}
            /\ AllDigits(SubSeq(s, 1, k))
            /\ Char(s, k + 1) = ":"
            /\ AllDigits(SubSeq(s, k + 2, k + 3))
            /\ Len(s) = k + 6 =>
                   /\ Char(s, k + 4) = ":"
                   /\ AllDigits(SubSeq(s, k + 5, k + 6))
    IN  IF fits(2) THEN 2 ELSE IF fits(1) THEN 1 ELSE 0

\* [int(p) for p in s.split(":")] of a clock form whose first component
\* has k digits, and the sum returned
ClockSeconds(s, k) ==
    IF Len(s) = k + 3
    THEN int(SubSeq(s, 1, k)) * 60 + int(SubSeq(s, k + 2, k + 3))
    ELSE int(SubSeq(s, 1, k)) * 3600 + int(SubSeq(s, k + 2, k + 3)) * 60
             + int(SubSeq(s, k + 5, k + 6))

\* re.search(r"(\d+)" + unit, s): group 1 of the leftmost match, None when
\* there is no match
\* the digits before the unit at position i of s, as an integer
UnitAt(s, i) == Some(int(SubSeq(s, RunStart(s, i - 1), i - 1)))

UnitHits(s, unit) ==
    {i \in 2..Len(s) : Char(s, i) = unit /\ Char(s, i - 1) \in Digits}

UnitSearch(s, unit) ==
    IF UnitHits(s, unit) = {} THEN None ELSE UnitAt(s, Min(UnitHits(s, unit)))

\* "if h: hours = int(h.group(1))", from "hours = minutes = seconds = 0"
OrZero(m) == IF m # None THEN m[1] ELSE 0

\* the result for the three searches h, m and sec
UnitTotal(h, m, sec) ==
    IF h = None /\ m = None /\ sec = None
    THEN None
    ELSE Some(OrZero(h) * 3600 + OrZero(m) * 60 + OrZero(sec))

UnitSeconds(s) ==
    UnitTotal(UnitSearch(s, "h"), UnitSearch(s, "m"), UnitSearch(s, "s"))

\* s = text.strip().lower(); s = s.replace(" ", "")
Normalise(t) == remove(lower(strip(t)), " ")

\* the two strategies, for the normalised text s whose clock head is k
Strategies(s, k) == IF k # 0 THEN Some(ClockSeconds(s, k)) ELSE UnitSeconds(s)

ParseNormalised(s) == Strategies(s, ClockHead(s))

_parse_human_time_to_seconds(t) ==
    IF t = "" THEN None ELSE ParseNormalised(Normalise(t))

---------------------------------------------------------------------------
(* The patterns of the scanner. Every pattern is compiled with             *)
(* re.IGNORECASE: the literal parts are compared with the lower-cased      *)
(* line. A line holds no line break (it is one stripped line of the file). *)

\* [0-9]*\.?[0-9]+ at position q of s: the end of the match, q - 1 when
\* there is none (greedy: all the digits, then a dot only if digits follow)
NumberEnd(s, q) ==
    LET a == RunEnd(s, q)
        b == RunEnd(s, a + 2)
    IN  IF At(s, a + 1, ".") /\ b >= a + 2 THEN b ELSE a

\* re.compile(r"filament used\s*\[<unit>\]\s*=\s*([0-9]*\.?[0-9]+)").search:
\* group 1 of the leftmost match, None when there is no match
\* "[<unit>]\s*=\s*" at position a of s: the position after it, 0 when it
\* is not there
AfterUnit(s, a, unit) ==
    IF At(s, a, unit) /\ At(s, SkipSpace(s, a + Len(unit)), "=")
    THEN SkipSpace(s, SkipSpace(s, a + Len(unit)) + 1)
    ELSE 0

\* the pattern up to the number, at position p of s: where the number
\* starts, 0 when the pattern does not fit
NumberStart(s, p, unit) ==
    IF At(s, p, "filament used")
    THEN AfterUnit(s, SkipSpace(s, p + 13), unit)
    ELSE 0

NumberFrom(s, c) == IF c # 0 /\ NumberEnd(s, c) >= c THEN c ELSE 0

\* where the number of the leftmost match starts, 0 when there is no match
RECURSIVE FilamentFrom(_, _, _)
FilamentFrom(s, p, unit) ==
    IF p > Len(s) THEN 0
    ELSE IF NumberFrom(s, NumberStart(s, p, unit)) # 0
    THEN NumberStart(s, p, unit)
    ELSE FilamentFrom(s, p + 1, unit)

NumberText(s, c) == IF c = 0 THEN None ELSE Some(SubSeq(s, c, NumberEnd(s, c)))

FilamentLower(s, unit) == NumberText(s, FilamentFrom(s, 1, unit))

FilamentSearch(unit, line) == FilamentLower(lower(line), unit)

_MM_RE(line) == FilamentSearch("[mm]", line)

_G_RE(line) == FilamentSearch("[g]", line)

\* re.compile(r"^;TIME:\s*([0-9]+)\s*$").match: group 1, None when no match
SecondsDigits(s, a) ==
    IF At(s, 1, ";time:") /\ RunEnd(s, a) >= a
           /\ SkipSpace(s, RunEnd(s, a) + 1) = Len(s) + 1
    THEN Some(SubSeq(s, a, RunEnd(s, a)))
    ELSE None

SecondsLower(s) == SecondsDigits(s, SkipSpace(s, 7))

_TIME_SECONDS_RE(line) == SecondsLower(lower(line))

\* \s*(.+)$ from position i of line, i - 1 being the end of what matched
\* so far: the group, None when nothing is left for (.+). The whitespace
\* goes to \s* unless the rest is all whitespace, and then (.+) takes the
\* last character.
TrailingText(line, i) ==
    IF i > Len(line) THEN None
    ELSE IF SkipSpace(line, i) <= Len(line)
    THEN Some(SubSeq(line, SkipSpace(line, i), Len(line)))
    ELSE Some(Char(line, Len(line)))

\* re.compile(r"estimated printing time.*?=\s*(.+)$").search: group 1.
\* The lazy .*? stops at the first "=" that leaves text for (.+).
HumanEquals(s) ==
    {i \in 1..Len(s) - 1 :
         /\ Char(s, i) = "="
         /\ \E p \in 1..i - 23 : At(s, p, "estimated printing time")}

HumanGroup(line, eqs) ==
    IF eqs = {} THEN None ELSE TrailingText(line, Min(eqs) + 1)

_TIME_HUMAN_RE(line) == HumanGroup(line, HumanEquals(lower(line)))

\* re.compile(r"(printing time|print time)\s*:\s*(.+)$").search: group 2
\* word, \s* and ":" at position p of s, with text left after the colon:
\* the position of the colon, 0 when they are not there
ColonAfter(s, p, word) ==
    IF At(s, p, word) /\ At(s, SkipSpace(s, p + Len(word)), ":")
           /\ SkipSpace(s, p + Len(word)) < Len(s)
    THEN SkipSpace(s, p + Len(word))
    ELSE 0

\* the alternation at position p, "printing time" tried first
AltColon(s, p) ==
    IF ColonAfter(s, p, "printing time") # 0
    THEN ColonAfter(s, p, "printing time")
    ELSE ColonAfter(s, p, "print time")

\* the colon of the leftmost match, 0 when there is no match
RECURSIVE AltFrom(_, _)
AltFrom(s, p) ==
    IF p > Len(s) THEN 0
    ELSE IF AltColon(s, p) # 0 THEN AltColon(s, p)
    ELSE AltFrom(s, p + 1)

AltGroup(line, colon) == IF colon = 0 THEN None ELSE TrailingText(line, colon + 1)

_TIME_ALT_RE(line) == AltGroup(line, AltFrom(lower(line), 1))

\* float(t) for t matching [0-9]*\.?[0-9]+: the decimal n / 10^e, with no
\* trailing zero in the fraction
RECURSIVE NoTrailingZeros(_)
NoTrailingZeros(d) ==
    IF d # "" /\ Char(d, Len(d)) = "0"
    THEN NoTrailingZeros(SubSeq(d, 1, Len(d) - 1))
    ELSE d

Decimal(whole, frac) == [n |-> int(whole \o frac), e |-> Len(frac)]

\* t with its dot at position i (Len(t) + 1 when it has none)
FloatAt(t, i) ==
    Decimal(SubSeq(t, 1, i - 1), NoTrailingZeros(SubSeq(t, i + 1, Len(t))))

float(t) == FloatAt(t, Min({i \in 1..Len(t) : Char(t, i) = "."} \cup {Len(t) + 1}))

\* whether a word character stands at position i of s
WordAt(s, i) == i >= 1 /\ i <= Len(s) /\ Char(s, i) \in WordChars

\* the four patterns of _SLICER_HINTS, searched in the header blob
BambuHint(blob) ==
    \E p \in 1..Len(blob) :
        /\ AtFold(blob, p, "bambu")
        /\ AtFold(blob, SkipSpace(blob, p + 5), "studio")

OrcaHint(blob) ==
    \E p \in 1..Len(blob) : AtFold(blob, p, "orcaslicer")

PrusaHint(blob) ==
    \E p \in 1..Len(blob) : AtFold(blob, p, "prusaslicer")

\* \bcura\b: no word character right before or right after
CuraHint(blob) ==
    \E p \in 1..Len(blob) :
        /\ AtFold(blob, p, "cura")
        /\ ~WordAt(blob, p - 1)
        /\ ~WordAt(blob, p + 4)

_detect_slicer(header_blob) ==
    IF BambuHint(header_blob) THEN Some("Bambu Studio")
    ELSE IF OrcaHint(header_blob) THEN Some("OrcaSlicer")
    ELSE IF PrusaHint(header_blob) THEN Some("PrusaSlicer")
    ELSE IF CuraHint(header_blob) THEN Some("Cura")
    ELSE None

\* "\n".join(lines)
RECURSIVE join(_)
join(lines) ==
    IF lines = <<>> THEN ""
    ELSE IF Len(lines) = 1 THEN lines[1]
    ELSE join(SubSeq(lines, 1, Len(lines) - 1)) \o "\n" \o lines[Len(lines)]

---------------------------------------------------------------------------
(* parse_gcode                                                             *)

max_header_lines == 300

\* the early exit is taken only at an index above this one
EarlyExitAfter == 250

\* ParseResult(source_file=file_path)
ParseResult(path) ==
    [filament_mm |-> None, filament_g |-> None, time_seconds |-> None,
     slicer |-> None, source_file |-> path]

\* the assignment without its "is None" test: the last match wins
FilamentFieldOverwrite(current, m) ==
    IF m # None THEN Some(float(m[1])) ELSE current

\* "if m and <field> is None: <field> = float(m.group(1))"
FilamentField(current, m) ==
    IF m # None /\ current = None THEN Some(float(m[1])) ELSE current

\* the three duration forms, in the order the loop body tries them
\* "if tsec_match and time_seconds is None: time_seconds = int(group(1))"
SecondsForm(current, tsec_match) ==
    IF tsec_match # None /\ current = None
    THEN Some(int(tsec_match[1]))
    ELSE current

\* "if m: parsed = _parse_human_time_to_seconds(m.group(k))"
Parsed(m) == IF m # None THEN _parse_human_time_to_seconds(m[1]) ELSE None

\* "if time_seconds is None: ... if parsed is not None: time_seconds = parsed"
TextForm(current, parsed) ==
    IF current = None /\ parsed # None THEN parsed ELSE current

\* the generic form tried before the descriptive one
TimeFieldGenericFirst(current, line) ==
    TextForm(TextForm(SecondsForm(current, _TIME_SECONDS_RE(line)),
                      Parsed(_TIME_ALT_RE(line))),
             Parsed(_TIME_HUMAN_RE(line)))

\* the three duration forms, in the order the loop body tries them
TimeField(current, line) ==
    TextForm(TextForm(SecondsForm(current, _TIME_SECONDS_RE(line)),
                      Parsed(_TIME_HUMAN_RE(line))),
             Parsed(_TIME_ALT_RE(line)))

\* "if idx < max_header_lines: header_lines.append(line)"
KeepHeader(header, i, line) ==
    IF i < max_header_lines THEN Append(header, line) ELSE header

\* the condition of the break
EarlyExit(res, i) ==
    /\ res.filament_mm # None
    /\ res.filament_g # None
    /\ res.time_seconds # None
    /\ i > EarlyExitAfter

\* one pass of the loop body for the line raw at index i
\* the fields after the loop body has seen line
Filled(res, line) ==
    [res EXCEPT !.filament_mm = FilamentField(@, _MM_RE(line)),
                !.filament_g = FilamentField(@, _G_RE(line)),
                !.time_seconds = TimeField(@, line)]

LoopState(res, header, i) ==
    [result |-> res, header_lines |-> header, break |-> EarlyExit(res, i)]

BodyOn(res, header, i, line) ==
    LoopState(Filled(res, line), KeepHeader(header, i, line), i)

\* one pass of the loop body for the line raw at index i
ScanBody(res, header, i, raw) == BodyOn(res, header, i, strip(raw))

\* what follows the loop: the slicer, and the record returned
Finish(res, header) == [res EXCEPT !.slicer = _detect_slicer(join(header))]

\* parse_gcode as a function of the lines of the file at path
RECURSIVE ScanRest(_, _, _)
ScanRest(st, i, lines) ==
    IF st.break \/ i >= Len(lines)
    THEN Finish(st.result, st.header_lines)
    ELSE ScanRest(ScanBody(st.result, st.header_lines, i, lines[i + 1]),
                  i + 1, lines)

parse_gcode(path, lines) ==
    ScanRest(LoopState(ParseResult(path), <<>>, 0), 0, lines)

---------------------------------------------------------------------------
(* The values the command line's variables hold while nothing runs         *)

NoArgs == [watch |-> FALSE, file |-> "", json_out |-> None, csv_out |-> None,
           notion_db |-> None, print_output |-> FALSE, source_mode |-> "name",
           token |-> FALSE]

NoDisk == [exists |-> FALSE, size |-> 0]

NoFile == [exists |-> FALSE, rows |-> <<>>]

\* json and csv are the two output files, notion the requests posted,
\* printed what process_file printed; csv_before is the CSV file as it was
\* at the start and csv_calls the rows write_csv was given since, in order
NoOutput == [json |-> NoFile, csv |-> NoFile, notion |-> <<>>,
             printed |-> <<>>, csv_before |-> NoFile, csv_calls |-> <<>>]

NoCall == [path |-> "", raised |-> "", returned |-> None]

NoEvent == [src_path |-> "", is_directory |-> FALSE]

NoHandler == [event |-> NoEvent, last_size |-> -1, polls |-> 0]

NoWatch == [observer |-> "stopped", log |-> <<>>, events |-> 0]

---------------------------------------------------------------------------
(* The files scanned: every file of up to MaxShort lines of Lines, and     *)
(* long files that hold the three fields as one block and at most one      *)
(* slicer line, each placed at the start or within Slack lines of the two  *)
(* thresholds of the scan.                                                 *)

MaxShort == 3

Slack == 1

Filler == "G1"

MmLine == "; filament used [mm] = 1234.5"

GLine == "; filament used [g] = 36.7"

SecondsLine == ";TIME:7200"

CuraEngineLine == ";Generated with Cura_SteamEngine 5.2.1"

\* matched by the descriptive form with text that is no duration, and by
\* the generic form with text that is one
FallThroughLine == "; estimated printing time: 1h 2m = n/a"

\* matched by both forms with durations that differ
BothFormsLine == "; estimated printing time: 1h 2m = 3m"

SlicerLines == {"; BambuStudio 01.08", "; cura profile"}

Lines ==
    {MmLine, GLine, "  ; Filament Used [G]=2.50", SecondsLine,
     "; estimated printing time = soon", "; printing time: 45m",
     FallThroughLine, BothFormsLine} \cup SlicerLines

RECURSIVE FilesOf(_)
FilesOf(n) ==
    IF n = 0 THEN {<<>>}
    ELSE LET shorter == FilesOf(n - 1)
         IN  shorter \cup {Append(f, l) : f \in shorter, l \in Lines}

FieldBlock == <<MmLine, GLine, SecondsLine>>

Around(k) == (k - Slack)..(k + Slack)

LongLen == max_header_lines + Slack + Len(FieldBlock)

BlockAt == {0} \cup Around(EarlyExitAfter) \cup Around(max_header_lines)

SlicerAt == {Len(FieldBlock)} \cup Around(EarlyExitAfter)
                \cup Around(max_header_lines)

\* the long file with the block at index b and the line hint at index v
LongFile(b, v, hint) ==
    [i \in 1..LongLen |->
        IF i - 1 \in b..(b + Len(FieldBlock) - 1) THEN FieldBlock[i - b]
        ELSE IF i - 1 = v THEN hint
        ELSE Filler]

LongFiles ==
    {LongFile(b, v, hint) : b \in BlockAt, v \in SlicerAt,
                            hint \in {Filler, "; cura profile"}}

\* the file of the documentation's end-to-end example
CuraFile == <<SecondsLine, MmLine, GLine, CuraEngineLine>>

Files == FilesOf(MaxShort) \cup LongFiles \cup {CuraFile}

Path == "model.gcode"

ScanInit ==
    /\ exists \in BOOLEAN
    /\ file \in (IF exists THEN Files ELSE {<<>>})
    /\ idx = 0
    /\ result = ParseResult(Path)
    /\ header_lines = <<>>
    /\ pc = "open"
    /\ text = ""
    /\ seconds = None
    /\ tpc = "idle"
    /\ args = NoArgs
    /\ disk = NoDisk
    /\ outputs = NoOutput
    /\ last = NoCall
    /\ cpc = "idle"
    /\ handler = NoHandler
    /\ watch = NoWatch

\* open(file_path, "r", encoding="utf-8", errors="ignore")
Open ==
    /\ pc = "open"
    /\ exists
    /\ pc' = "scan"
    /\ UNCHANGED <<exists, file, idx, result, header_lines, timeVars, cliVars>>

OpenFails ==
    /\ pc = "open"
    /\ ~exists
    /\ pc' = "raised"
    /\ UNCHANGED <<exists, file, idx, result, header_lines, timeVars, cliVars>>

\* one iteration of "for idx, raw in enumerate(f)"; the break leaves the
\* loop, and the function returns
ScanLine ==
    /\ pc = "scan"
    /\ idx < Len(file)
    /\ \E out \in {ScanBody(result, header_lines, idx, file[idx + 1])} :
           /\ header_lines' = out.header_lines
           /\ idx' = idx + 1
           /\ IF out.break
              THEN /\ result' = Finish(out.result, out.header_lines)
                   /\ pc' = "done"
              ELSE /\ result' = out.result
                   /\ pc' = "scan"
    /\ UNCHANGED <<exists, file, timeVars, cliVars>>

\* the file is exhausted: the loop ends, and the function returns
EndOfFile ==
    /\ pc = "scan"
    /\ idx = Len(file)
    /\ result' = Finish(result, header_lines)
    /\ pc' = "done"
    /\ UNCHANGED <<exists, file, idx, header_lines, timeVars, cliVars>>

ScanNext == Open \/ OpenFails \/ ScanLine \/ EndOfFile

Spec == ScanInit /\ [][ScanNext]_vars

---------------------------------------------------------------------------
(* Properties of the scan                                                  *)

\* the same scan with the early exit disabled: every line is read, and
\* the loop ends only when the lines are exhausted
RECURSIVE FullRest(_, _, _)
FullRest(st, i, lines) ==
    IF st.break \in BOOLEAN /\ i >= Len(lines)
    THEN Finish(st.result, st.header_lines)
    ELSE FullRest(ScanBody(st.result, st.header_lines, i, lines[i + 1]),
                  i + 1, lines)

FullScan(path, lines) ==
    FullRest(LoopState(ParseResult(path), <<>>, 0), 0, lines)

\* C1: with the early exit, parse_gcode returns the record that a scan of
\* the whole file returns, wherever the fields and a slicer line sit.
C1_EarlyExitEqualsFullScan == pc = "done" => result = FullScan(Path, file)

NumericFields == {"filament_mm", "filament_g", "time_seconds"}

\* the value the line alone gives the field, None when it gives none
LineValue(field, line) ==
    CASE field = "filament_mm" ->
             IF _MM_RE(line) # None THEN Some(float(_MM_RE(line)[1])) ELSE None
      [] field = "filament_g" ->
             IF _G_RE(line) # None THEN Some(float(_G_RE(line)[1])) ELSE None
      [] field = "time_seconds" -> TimeField(None, line)

\* the value of the earliest line of lines, from index i on, that gives one
RECURSIVE EarliestFrom(_, _, _)
EarliestFrom(field, lines, i) ==
    IF i > Len(lines) THEN None
    ELSE IF LineValue(field, strip(lines[i])) # None
    THEN LineValue(field, strip(lines[i]))
    ELSE EarliestFrom(field, lines, i + 1)

KeepsSetFields ==
    \A field \in NumericFields :
        result[field] # None => result'[field] = result[field]

\* the record returned by this step holds the earliest values of the file
ReturnsEarliest ==
    pc' = "done" =>
        \A field \in NumericFields :
            result'[field] = EarliestFrom(field, file, 1)

\* C2: a field that is set keeps its value in every later step of the
\* scan, and the record returned holds, for each field, the value of the
\* earliest line that gives the field a value.
C2_FirstMatchWins ==
    [][KeepsSetFields /\ ReturnsEarliest]_vars

\* a finished scan of a file in which two lines give the mass different
\* values, the earlier one being the one returned
C2_TwoMatches ==
    /\ pc = "done"
    /\ Len(file) <= MaxShort
    /\ \E i, j \in 1..Len(file) :
           /\ i < j
           /\ LineValue("filament_g", strip(file[i])) # None
           /\ LineValue("filament_g", strip(file[j])) # None
           /\ LineValue("filament_g", strip(file[j]))
                  # LineValue("filament_g", strip(file[i]))
           /\ result.filament_g = LineValue("filament_g", strip(file[i]))

\* C3: the file of the end-to-end example gives length 1234.5, mass 36.7,
\* 7200 seconds and the slicer Cura.
C3_CuraEndToEnd ==
    (pc = "done" /\ file = CuraFile) =>
        /\ result.filament_mm = Some([n |-> 12345, e |-> 1])
        /\ result.filament_g = Some([n |-> 367, e |-> 1])
        /\ result.time_seconds = Some(7200)
        /\ result.slicer = Some("Cura")

\* a step of the loop that reads a line while no duration is set
ReadsLineUnset ==
    /\ pc = "scan"
    /\ idx' = idx + 1
    /\ result.time_seconds = None

CurrentLine == strip(file[idx + 1])

\* C4 as stated: on a line that the descriptive pattern matches (and the
\* native-seconds pattern does not), the duration is what the descriptive
\* text gives or stays unset; it is never taken from the generic pattern.
C4_GenericOnlyWithoutDescriptive ==
    [][(/\ ReadsLineUnset
        /\ _TIME_SECONDS_RE(CurrentLine) = None
        /\ _TIME_HUMAN_RE(CurrentLine) # None)
       => result'.time_seconds = Parsed(_TIME_HUMAN_RE(CurrentLine))]_vars

\* C4 as amended: while no duration is set, a line sets it from the
\* native-seconds form if that matches; else from the descriptive form if
\* its text parses; else (no descriptive match, or text that does not
\* parse) from the generic form if that matches with text that parses.
C4_FormOrder ==
    [][ReadsLineUnset =>
         /\ _TIME_SECONDS_RE(CurrentLine) # None =>
                result'.time_seconds = Some(int(_TIME_SECONDS_RE(CurrentLine)[1]))
         /\ (/\ _TIME_SECONDS_RE(CurrentLine) = None
             /\ Parsed(_TIME_HUMAN_RE(CurrentLine)) # None) =>
                result'.time_seconds = Parsed(_TIME_HUMAN_RE(CurrentLine))
         /\ (/\ _TIME_SECONDS_RE(CurrentLine) = None
             /\ Parsed(_TIME_HUMAN_RE(CurrentLine)) = None) =>
                result'.time_seconds = Parsed(_TIME_ALT_RE(CurrentLine))]_vars

\* the first line matched the descriptive form with text that does not
\* parse, and the duration was taken from the generic form
C4_FellThrough ==
    /\ idx = 1
    /\ file[1] = FallThroughLine
    /\ _TIME_HUMAN_RE(file[1]) # None
    /\ Parsed(_TIME_HUMAN_RE(file[1])) = None
    /\ result.time_seconds = Some(3720)

\* the header region of a file: its first max_header_lines lines
Min2(a, b) == IF a <= b THEN a ELSE b

HeaderRegion(lines) == SubSeq(lines, 1, Min2(Len(lines), max_header_lines))

\* whether the signature of vendor occurs in line
Signature(vendor, line) ==
    CASE vendor = "Bambu Studio" -> BambuHint(line)
      [] vendor = "OrcaSlicer" -> OrcaHint(line)
      [] vendor = "PrusaSlicer" -> PrusaHint(line)
      [] vendor = "Cura" -> CuraHint(line)

Vendors == <<"Bambu Studio", "OrcaSlicer", "PrusaSlicer", "Cura">>

Occurs(vendor, lines) ==
    \E i \in 1..Len(lines) : Signature(vendor, strip(lines[i]))

\* the first vendor, in list order, whose signature occurs in lines
FirstVendor(lines) ==
    IF \E k \in 1..Len(Vendors) : Occurs(Vendors[k], lines)
    THEN Some(Vendors[Min({k \in 1..Len(Vendors) : Occurs(Vendors[k], lines)})])
    ELSE None

\* C6: the slicer returned is the first vendor, in list order, whose
\* signature occurs in the first 300 lines of the file, and is absent
\* exactly when none occurs there.
C6_SlicerFromHeaderRegion ==
    pc = "done" => result.slicer = FirstVendor(HeaderRegion(file))

---------------------------------------------------------------------------
(* src/cli.py and src/notion_client.py                                     *)

\* Path(p).name: what follows the last "/"
RECURSIVE BaseName(_)
BaseName(p) ==
    IF \E i \in 1..Len(p) : Char(p, i) = "/"
    THEN BaseName(SubSeq(p, Min({i \in 1..Len(p) : Char(p, i) = "/"}) + 1, Len(p)))
    ELSE p

endswith(s, suffix) ==
    /\ Len(s) >= Len(suffix)
    /\ SubSeq(s, Len(s) - Len(suffix) + 1, Len(s)) = suffix

_sanitize_source_file(file_path, mode) ==
    IF mode = "name" THEN BaseName(file_path) ELSE file_path

\* str(n) for an integer n >= 0
RECURSIVE IntText(_)
IntText(n) ==
    IF n < 10 THEN Char("0123456789", n + 1)
    ELSE IntText(n \div 10) \o Char("0123456789", (n % 10) + 1)

RECURSIVE Pow10(_)
Pow10(e) == IF e = 0 THEN 1 ELSE 10 * Pow10(e - 1)

\* the fraction digits of a float, e of them
RECURSIVE FracText(_, _)
FracText(n, e) ==
    IF e = 0 THEN "" ELSE FracText(n \div 10, e - 1) \o IntText(n % 10)

\* repr(x) of the float x = n / 10^e
FloatText(x) ==
    IF x.e = 0 THEN IntText(x.n) \o ".0"
    ELSE IntText(x.n \div Pow10(x.e)) \o "." \o FracText(x.n % Pow10(x.e), x.e)

\* what csv.DictWriter writes for a value: "" for None
StrCell(v) == IF v = None THEN "" ELSE v[1]

FloatCell(v) == IF v = None THEN "" ELSE FloatText(v[1])

IntCell(v) == IF v = None THEN "" ELSE IntText(v[1])

CsvHeader ==
    <<"source_file", "slicer", "filament_mm", "filament_g", "time_seconds">>

\* the row write_csv builds from data
CsvRow(data) ==
    <<data.source_file, StrCell(data.slicer), FloatCell(data.filament_mm),
      FloatCell(data.filament_g), IntCell(data.time_seconds)>>

\* out_path.write_text(json.dumps(data, indent=2)): the file holds data alone
write_json(f, data) == [exists |-> TRUE, rows |-> <<data>>]

\* the header written although the file exists, and not when it is new
write_csv_header_inverted(f, data) ==
    [exists |-> TRUE,
     rows |-> f.rows \o (IF f.exists THEN <<CsvHeader>> ELSE <<>>)
                  \o <<CsvRow(data)>>]

\* the file f at out_path after write_csv(out_path, data)
write_csv(f, data) ==
    [exists |-> TRUE,
     rows |-> f.rows \o (IF ~f.exists THEN <<CsvHeader>> ELSE <<>>)
                  \o <<CsvRow(data)>>]

\* "if parsed.get(key)" for a text: absent when None or empty
Truthy(v) == IF v = None THEN None ELSE IF v[1] = "" THEN None ELSE v

\* the properties built, None where build_basic_props leaves one out
build_basic_props(parsed) ==
    [prop \in {"Filament g", "Filament mm", "Time (s)", "Slicer", "Source File"} |->
        CASE prop = "Filament g" -> parsed.filament_g
          [] prop = "Filament mm" -> parsed.filament_mm
          [] prop = "Time (s)" -> parsed.time_seconds
          [] prop = "Slicer" -> Truthy(parsed.slicer)
          [] prop = "Source File" -> Truthy(Some(parsed.source_file))]

\* create_usage_page for the outputs o: the error raised ("" when none)
\* and the outputs after it; token tells whether NOTION_TOKEN is set and
\* resp is the response to the request
create_usage_page(o, database_id, title, props, token, resp) ==
    IF ~token
    THEN [raised |-> "RuntimeError", outputs |-> o]
    ELSE [raised |-> IF resp = "ok" THEN "" ELSE "HTTPError",
          outputs |-> [o EXCEPT !.notion =
                          Append(@, [database_id |-> database_id,
                                     Name |-> title, props |-> props])]]

---------------------------------------------------------------------------
(* The watched folder holds one .gcode file, which a writer copies chunk   *)
(* by chunk: its size is the number of chunks (lines) written so far.      *)

MaxSize == 3

WatchedFile == "/watch/part.gcode"

\* the file once it is complete: the mass is its last line
FullSource == [i \in 1..MaxSize |-> IF i = MaxSize THEN GLine ELSE Filler]

Content(size) == SubSeq(FullSource, 1, size)

\* open() swallowing the error: a file that is missing reads as empty
OpenMissingAsEmpty(d, path) ==
    [raised |-> "",
     lines |-> IF path = WatchedFile /\ d.exists THEN Content(d.size) ELSE <<>>]

\* open(file_path) in parse_gcode: the lines read, or the error raised
OpenFile(d, path) ==
    IF path = WatchedFile /\ d.exists
    THEN [raised |-> "", lines |-> Content(d.size)]
    ELSE [raised |-> "FileNotFoundError", lines |-> <<>>]

\* p.stat().st_size in on_created: -1 stands for FileNotFoundError
Stat(d, path) == IF path = WatchedFile /\ d.exists THEN d.size ELSE -1

---------------------------------------------------------------------------
(* process_file                                                            *)

\* "parsed = parse_gcode(file_path)" and the sanitised source_file
ParsedOf(opened, file_path, a) ==
    [parse_gcode(file_path, opened.lines) EXCEPT
        !.source_file = _sanitize_source_file(file_path, a.source_mode)]

\* "if json_out: write_json(...)" and "if csv_out: write_csv(...)"
FileSteps(o, a, parsed) ==
    [o EXCEPT
       !.json = IF a.json_out # None THEN write_json(@, parsed) ELSE @,
       !.csv = IF a.csv_out # None THEN write_csv(@, parsed) ELSE @,
       !.csv_calls = IF a.csv_out # None THEN Append(@, CsvRow(parsed)) ELSE @]

\* "if notion_db: ... create_usage_page(...)"
NotionStep(o, a, file_path, parsed, resp) ==
    IF a.notion_db # None
    THEN create_usage_page(o, a.notion_db[1], BaseName(file_path),
                           build_basic_props(parsed), a.token, resp)
    ELSE [raised |-> "", outputs |-> o]

\* "if print_output: print(...)" and "return parsed"
PrintStep(st, a, parsed) ==
    IF st.raised # ""
    THEN [raised |-> st.raised, returned |-> None, outputs |-> st.outputs]
    ELSE [raised |-> "", returned |-> Some(parsed),
          outputs |-> IF a.print_output
                      THEN [st.outputs EXCEPT !.printed = Append(@, parsed)]
                      ELSE st.outputs]

Export(o, a, file_path, parsed, resp) ==
    PrintStep(NotionStep(FileSteps(o, a, parsed), a, file_path, parsed, resp),
              a, parsed)

Processed(opened, file_path, a, o, resp) ==
    IF opened.raised # ""
    THEN [raised |-> opened.raised, returned |-> None, outputs |-> o]
    ELSE Export(o, a, file_path, ParsedOf(opened, file_path, a), resp)

\* process_file(file_path, ...) with the arguments a, the disk d and the
\* outputs o: the error raised ("" when none), the record returned and the
\* outputs after the call
process_file(file_path, a, d, o, resp) ==
    Processed(OpenFile(d, file_path), file_path, a, o, resp)

---------------------------------------------------------------------------
(* main, run_watch and the handler                                         *)

MaxPolls == 12

\* events the handler may be given in one run
MaxEvents == 2

Responses == {"ok", "error"}

\* every error process_file raises is an Exception
Exceptions == {"FileNotFoundError", "RuntimeError", "HTTPError"}

\* a handler that catches only the errors of the file system
CaughtFileErrorsOnly(exc) == exc = "FileNotFoundError"

\* "except Exception as e"
Caught(exc) == exc \in Exceptions

Events ==
    {[src_path |-> WatchedFile, is_directory |-> FALSE],
     [src_path |-> "/watch/B.GCODE", is_directory |-> FALSE],
     [src_path |-> "/watch/notes.txt", is_directory |-> FALSE],
     [src_path |-> "/watch/dir.gcode", is_directory |-> TRUE]}

AllOutputs ==
    [json_out |-> Some("out/latest.json"), csv_out |-> Some("out/usage.csv"),
     notion_db |-> Some("db"), print_output |-> TRUE, source_mode |-> "name"]

CsvOnly ==
    [json_out |-> None, csv_out |-> Some("out/usage.csv"),
     notion_db |-> None, print_output |-> FALSE, source_mode |-> "full"]

\* the argument sets tried; the token matters only with --notion-db
ArgSets ==
    {a \in {[watch |-> w, file |-> IF w THEN "" ELSE WatchedFile,
             json_out |-> c.json_out, csv_out |-> c.csv_out,
             notion_db |-> c.notion_db, print_output |-> c.print_output,
             source_mode |-> c.source_mode, token |-> t] :
                w \in BOOLEAN, c \in {AllOutputs, CsvOnly}, t \in BOOLEAN} :
        a.token => a.notion_db # None}

OldCsv ==
    [exists |-> TRUE,
     rows |-> <<CsvHeader, <<"old.gcode", "Cura", "1.5", "", "60">>>>]

CliInit ==
    /\ args \in ArgSets
    /\ disk \in {NoDisk, [exists |-> TRUE, size |-> MaxSize]}
    /\ \E before \in {NoFile, OldCsv} :
           outputs = [NoOutput EXCEPT !.csv = before, !.csv_before = before]
    /\ last = NoCall
    /\ cpc = IF args.watch THEN "idle" ELSE "main"
    /\ handler = NoHandler
    /\ watch = [observer |-> IF args.watch THEN "running" ELSE "stopped",
                log |-> <<>>, events |-> 0]
    /\ exists = FALSE
    /\ file = <<>>
    /\ idx = 0
    /\ result = ParseResult(Path)
    /\ header_lines = <<>>
    /\ pc = "idle"
    /\ text = ""
    /\ seconds = None
    /\ tpc = "idle"

\* main without --watch: process_file(args.file, ...), nothing caught
Main ==
    /\ cpc = "main"
    /\ \E resp \in Responses :
         \E r \in {process_file(args.file, args, disk, outputs, resp)} :
           /\ outputs' = r.outputs
           /\ last' = [path |-> args.file, raised |-> r.raised,
                       returned |-> r.returned]
           /\ cpc' = IF r.raised = "" THEN "exited" ELSE "crashed"
    /\ UNCHANGED <<args, disk, handler, watch, scanVars, timeVars>>

\* on_created up to the polling loop
OnCreated(event) ==
    /\ cpc = "idle"
    /\ watch.observer = "running"
    /\ watch.events < MaxEvents
    /\ watch' = [watch EXCEPT !.events = @ + 1]
    /\ IF event.is_directory \/ ~endswith(lower(event.src_path), ".gcode")
       THEN UNCHANGED <<cpc, handler>>
       ELSE /\ cpc' = "poll"
            /\ handler' = [event |-> event, last_size |-> -1, polls |-> 0]
    /\ UNCHANGED <<args, disk, outputs, last, scanVars, timeVars>>

\* one pass of "for _ in range(12)"
Poll ==
    /\ cpc = "poll"
    /\ \E size \in {Stat(disk, handler.event.src_path)} :
         IF size = -1
         THEN cpc' = "idle" /\ UNCHANGED handler
         ELSE IF size = handler.last_size
         THEN cpc' = "process" /\ UNCHANGED handler
         ELSE /\ handler' = [handler EXCEPT !.last_size = size, !.polls = @ + 1]
              /\ cpc' = IF handler.polls + 1 = MaxPolls THEN "process" ELSE "poll"
    /\ UNCHANGED <<args, disk, outputs, last, watch, scanVars, timeVars>>

\* "try: process_file(...) except Exception as e: print(...)"
Process ==
    /\ cpc = "process"
    /\ \E resp \in Responses :
         \E r \in {process_file(handler.event.src_path, args, disk, outputs, resp)} :
           /\ outputs' = r.outputs
           /\ last' = [path |-> handler.event.src_path, raised |-> r.raised,
                       returned |-> r.returned]
           /\ IF r.raised = ""
              THEN cpc' = "idle" /\ UNCHANGED watch
              ELSE IF Caught(r.raised)
              THEN /\ cpc' = "idle"
                   /\ watch' = [watch EXCEPT !.log =
                         Append(@, <<BaseName(handler.event.src_path), r.raised>>)]
              ELSE /\ cpc' = "crashed"
                   /\ watch' = [watch EXCEPT !.observer = "crashed"]
    /\ UNCHANGED <<args, disk, handler, scanVars, timeVars>>

\* the writer of the watched file, and whoever removes or recreates it
WriterAppends ==
    /\ args.watch
    /\ disk.exists
    /\ disk.size < MaxSize
    /\ disk' = [disk EXCEPT !.size = @ + 1]
    /\ UNCHANGED <<args, outputs, last, cpc, handler, watch, scanVars, timeVars>>

FileRemoved ==
    /\ args.watch
    /\ disk.exists
    /\ disk' = NoDisk
    /\ UNCHANGED <<args, outputs, last, cpc, handler, watch, scanVars, timeVars>>

FileCreated ==
    /\ args.watch
    /\ ~disk.exists
    /\ disk' = [exists |-> TRUE, size |-> 0]
    /\ UNCHANGED <<args, outputs, last, cpc, handler, watch, scanVars, timeVars>>

CliNext ==
    \/ Main
    \/ \E event \in Events : OnCreated(event)
    \/ Poll
    \/ Process
    \/ WriterAppends
    \/ FileRemoved
    \/ FileCreated

SpecCli == CliInit /\ [][CliNext]_vars

---------------------------------------------------------------------------
(* Properties of process_file and of the watch handler                     *)

\* the path process_file is called with by the step taken from this state
CalledPath == IF cpc = "main" THEN args.file ELSE handler.event.src_path

\* the step is a call of process_file: Main or Process, which both move on
Calling == cpc \in {"main", "process"} /\ cpc' # cpc

\* the step is one pass of the polling loop
Polling == cpc = "poll" /\ (cpc' # cpc \/ handler' # handler)

OnDisk(path) == path = WatchedFile /\ disk.exists

\* C7: a call of process_file on a source that cannot be opened raises the
\* error of the failed open, returns no record, and leaves the JSON file,
\* the CSV file, Notion and the printed output as they were.
C7_MissingSourceWritesNothing ==
    [][(Calling /\ ~OnDisk(CalledPath))
          => /\ last'.path = CalledPath
             /\ last'.raised = "FileNotFoundError"
             /\ last'.returned = None
             /\ outputs' = outputs]_vars

\* a call on a missing source was made with every output requested
C7_MissingSourceCalled ==
    /\ last.raised = "FileNotFoundError"
    /\ last.path = WatchedFile
    /\ ~disk.exists
    /\ args.json_out # None /\ args.csv_out # None
    /\ args.notion_db # None /\ args.print_output /\ args.token

\* C8: the handler polls the size at most 12 times, hands the file to
\* process_file only once two consecutive polls returned the same size, and
\* never processes a file that disappears while being polled.
C8_ProcessedOnlyWhenStable ==
    [][/\ handler'.polls <= MaxPolls
       /\ (Polling /\ cpc' = "process")
             => (disk.exists /\ disk.size = handler.last_size)
       /\ (Polling /\ ~OnDisk(handler.event.src_path))
             => cpc' = "idle"]_vars

Accepted(event) ==
    ~event.is_directory /\ endswith(lower(event.src_path), ".gcode")

\* C9: in watch mode an error raised by process_file is reported and the
\* handler returns to waiting with the observer still running, so later
\* events are still handled; events for directories and for files that are
\* not .gcode never reach process_file.
C9_FailuresAreContained ==
    [][/\ (Calling /\ args.watch)
            => /\ cpc' = "idle"
               /\ watch'.observer = "running"
               /\ last'.raised # ""
                    => watch'.log = Append(watch.log,
                          <<BaseName(handler.event.src_path), last'.raised>>)
       /\ cpc' \in {"poll", "process"} => Accepted(handler'.event)
       /\ (args.watch /\ (last' # last \/ outputs' # outputs))
            => Calling /\ Accepted(handler.event)]_vars

\* a file was processed after an earlier one had failed
C9_ProcessedAfterFailure ==
    /\ watch.events = MaxEvents
    /\ watch.log # <<>>
    /\ last.raised = ""
    /\ last.returned # None
    /\ cpc = "idle"

\* C10: the CSV file gets the header row only when it is created; every
\* call appends one row, and earlier rows are kept.
C10_CsvHeaderOnceThenAppend ==
    outputs.csv_calls # <<>>
       => outputs.csv =
             [exists |-> TRUE,
              rows |-> (IF outputs.csv_before.exists
                        THEN outputs.csv_before.rows ELSE <<CsvHeader>>)
                           \o outputs.csv_calls]

\* two rows were written to a CSV file that did not exist before
C10_TwoRowsWritten ==
    /\ ~outputs.csv_before.exists
    /\ Len(outputs.csv_calls) = 2
    /\ outputs.csv_calls[1] # outputs.csv_calls[2]

---------------------------------------------------------------------------
(* Duration texts: up to MaxChunks pieces, and the texts the               *)
(* documentation names                                                     *)

MaxChunks == 5

\* digits in one text: the sums stay within TLC's 32-bit integers
MaxDigits == 5

Chunks == {"1", "23", ":", "h", "m", "s", " ", "\t", "H"}

DigitCount(t) == Cardinality({i \in 1..Len(t) : Char(t, i) \in Digits})

RECURSIVE TextsOf(_)
TextsOf(n) ==
    IF n = 0 THEN {""}
    ELSE LET shorter == TextsOf(n - 1)
         IN  shorter \cup {u \in {t \o c : t \in shorter, c \in Chunks} :
                             DigitCount(u) <= MaxDigits}

NamedTexts == {"17h56m", "17h 56m", "17:56:00", "45m", "30s", "01:23",
               "1h 2m 3s", "01:23:45", "23:59"}

Texts(n) == TextsOf(n) \cup NamedTexts

TimeInit ==
    /\ text \in Texts(MaxChunks)
    /\ seconds = None
    /\ tpc = "call"
    /\ exists = FALSE
    /\ file = <<>>
    /\ idx = 0
    /\ result = ParseResult(Path)
    /\ header_lines = <<>>
    /\ pc = "idle"
    /\ args = NoArgs
    /\ disk = NoDisk
    /\ outputs = NoOutput
    /\ last = NoCall
    /\ cpc = "idle"
    /\ handler = NoHandler
    /\ watch = NoWatch

ParseHumanTime ==
    /\ tpc = "call"
    /\ seconds' = _parse_human_time_to_seconds(text)
    /\ tpc' = "done"
    /\ UNCHANGED <<text, scanVars, cliVars>>

TimeNext == ParseHumanTime

SpecTime == TimeInit /\ [][TimeNext]_vars

\* the text without any whitespace, in lower case
RECURSIVE Squeezed(_)
Squeezed(t) ==
    IF t = "" THEN ""
    ELSE (IF Head(t) \in Whitespace THEN "" ELSE LowerChar(Head(t)))
             \o Squeezed(Tail(t))

\* the normaliser of the documentation: all whitespace removed, then the
\* clock form, then the unit markers
DocumentedSeconds(t) == ParseNormalised(Squeezed(t))

\* C5: _parse_human_time_to_seconds removes all whitespace and lower-cases,
\* then returns the clock sum for a clock form and otherwise the sum of
\* the integers before h, m and s, None exactly when no marker is found.
C5_NormaliserAsDocumented ==
    tpc = "done" => seconds = DocumentedSeconds(text)

=============================================================================
